---- MODULE Spec2Model ----
(***************************************************************************)
(* Model of lib/optional/__ngc_factory__/__ngc_initializer__.h:            *)
(* __ngc_initialize__ and the service classes of __ngc_initializer__.      *)
(*                                                                         *)
(* The template recursion is unfolded into a state machine: one action per *)
(* execute() of a service class.  An argument is a record                  *)
(* [pos, type]: pos is the 0-based position of the referenced object in    *)
(* the call to __ngc_initialize__ (arguments are forwarded by reference,   *)
(* so the position is the identity of the object), type is the deduced     *)
(* template argument.                                                      *)
(***************************************************************************)
EXTENDS Integers, Sequences, FiniteSets, TLC

\* ------------------------------------------------------------------ bounds
MaxLen == 4
MaxFields == 3

\* size_t arithmetic is modular.  The modulus is scaled down from 2^64 to
\* 2^16, which is still far above every count the bounded sequences reach.
SizeMod == 65536

\* The names a marker of the argument sequence may carry.
Names == {"a", "b", "c"}

\* The member names of the largest type, in declaration order.  A type of
\* the model declares a prefix of them; markers come in every order.
declared == <<"a", "b", "c", "d">>

\* ------------------------------------------------------------------- types
\* ngc :: string <chars...>, unqualified (the type of a member's name).
string(chars) == [str |-> TRUE, id |-> chars, const |-> FALSE, ref |-> FALSE]

\* The type deduced for a marker bound to a const lvalue: const string &.
const_string_ref(chars) == [str |-> TRUE, id |-> chars, const |-> TRUE, ref |-> TRUE]

\* A type that is not an ngc :: string.
int == [str |-> FALSE, id |-> "int", const |-> FALSE, ref |-> FALSE]

atypes_universe == {string(c) : c \in Names} \cup {const_string_ref(c) : c \in Names} \cup {int}

remove_reference(dtype) == [dtype EXCEPT !.ref = FALSE]

\* std :: remove_const leaves a reference type alone.
remove_const(dtype) == IF dtype.ref THEN dtype ELSE [dtype EXCEPT !.const = FALSE]

clean(dtype) == remove_const(remove_reference(dtype))

\* Only the specialization on ngc :: string <chars...> itself is true.
is_string(stype) == stype.str /\ ~stype.const /\ ~stype.ref

\* --------------------------------------------------------- arguments_range
\* Fault: the pack is scanned as given, not reversed.
reverse_parameter_pack_unreversed(haystack) == haystack

reverse_parameter_pack(haystack) == [i \in 1..Len(haystack) |-> haystack[Len(haystack) + 1 - i]]

iterator_match(ineedle, ftype) == clean(ineedle) = clean(ftype)

\* Fault: any string completes the search, the needle found or not.
iterator_string_any(ftype, prefix_found) == is_string(clean(ftype))

iterator_string(ftype, prefix_found) == is_string(clean(ftype)) /\ prefix_found

iterator_found(match, rest_found) == match \/ rest_found

iterator_completed(str, rest_completed) == str \/ rest_completed

iterator_beg(rest_beg, found) == (rest_beg + (IF found THEN 0 ELSE 1)) % SizeMod

\* Fault: the negation of completed is dropped.
iterator_end_unnegated(rest_end, completed) == (rest_end + (IF completed THEN 1 ELSE 0)) % SizeMod

iterator_end(rest_end, completed) == (rest_end + (IF completed THEN 0 ELSE 1)) % SizeMod

RECURSIVE iterator(_, _)
RECURSIVE arguments_range(_, _)

iterator(ineedle, ihaystack) ==
  IF ihaystack = <<>>
  THEN [found |-> FALSE, completed |-> FALSE, beg |-> 0, end |-> 0]
  ELSE LET ftype == Head(ihaystack)
           ftypes == Tail(ihaystack)
           rest == iterator(ineedle, ftypes)
           match == iterator_match(ineedle, ftype)
           str == iterator_string(ftype, arguments_range(ineedle, ftypes).found)
           found == iterator_found(match, rest.found)
           completed == iterator_completed(str, rest.completed)
       IN [found |-> found,
           completed |-> completed,
           beg |-> iterator_beg(rest.beg, found),
           end |-> iterator_end(rest.end, completed)]

arguments_range(needle, haystack) ==
  LET it == iterator(needle, reverse_parameter_pack(haystack))
  IN [found |-> it.found, beg |-> it.beg, end |-> it.end]

\* ------------------------------------------------------------------ slicer
\* front_step <front> with front > 0 drops its first argument.
front_step_forward(arguments) == Tail(arguments)

\* rotate_step <rotate> with rotate > 0 moves its first argument to the end.
rotate_step_forward(arguments) == Tail(arguments) \o <<Head(arguments)>>

\* Fault: back_step drops its last argument.
back_step_forward_last(arguments) == SubSeq(arguments, 1, Len(arguments) - 1)

\* back_step <back> with back > 0 drops its first argument.
back_step_forward(arguments) == Tail(arguments)

\* Fault: everything after the marker is retained, nothing discarded at the back.
parametric_counts_to_end(range, size) ==
  [front |-> (range.beg + 1) % SizeMod,
   rotate |-> (size - range.beg - 1) % SizeMod,
   back |-> 0]

\* The template arguments of front_step in parametric_initializer.
parametric_counts(range, size) ==
  [front |-> (range.beg + 1) % SizeMod,
   rotate |-> (range.end - range.beg - 1) % SizeMod,
   back |-> (size - range.end) % SizeMod]

\* Fault: the two branches of the conditional are swapped.
member_initializer_select_swapped(range) == IF range.found THEN "default_initializer" ELSE "parametric_initializer"

\* Fault: an empty range is taken for a missing marker.
member_initializer_select_nonempty(range) ==
  IF range.found /\ range.end > range.beg + 1 THEN "parametric_initializer" ELSE "default_initializer"

\* std :: conditional in member_initializer :: execute.
member_initializer_select(range) == IF range.found THEN "parametric_initializer" ELSE "default_initializer"

\* Fault: the default initializer forwards its arguments.
default_initializer_forward_all(arguments) == arguments

\* default_initializer calls __ngc_construct__(member) and drops its arguments.
default_initializer_forward(arguments) == <<>>

\* Fault: the member is initialized before the recursion on index - 1.
member_iterator_body_reversed(index) ==
  IF index = 0
  THEN <<[op |-> "member_initializer", index |-> 0]>>
  ELSE <<[op |-> "member_initializer", index |-> index],
         [op |-> "member_iterator", index |-> (index - 1) % SizeMod]>>

\* The calls of member_iterator <index> :: execute, in order.
member_iterator_body(index) ==
  IF index = 0
  THEN <<[op |-> "member_initializer", index |-> 0]>>
  ELSE <<[op |-> "member_iterator", index |-> (index - 1) % SizeMod],
         [op |-> "member_initializer", index |-> index]>>

\* Fault: the member count is compared with >= 0.
ngc_initialize_select_nonneg(member_count) == IF member_count >= 0 THEN "member_iterator" ELSE "null_iterator"

\* std :: conditional in __ngc_initialize__.
ngc_initialize_select(member_count) == IF member_count > 0 THEN "member_iterator" ELSE "null_iterator"

\* ------------------------------------------------------------------- state
VARIABLES
  members,      \* names of the members of type, in declaration order
  arguments,    \* the arguments of __ngc_initialize__
  pc,           \* "start", "run", "null_iterator", "done", "ill_formed"
  calls,        \* pending calls of the member_iterator recursion
  step,         \* the service class currently executing for one member
  constructed   \* the calls to __ngc_construct__ made so far

vars == <<members, arguments, pc, calls, step, constructed>>

idle == [fn |-> "none"]

atypes(args) == [i \in 1..Len(args) |-> args[i].type]

Min(x, y) == IF x < y THEN x ELSE y

SeqsUpTo(S, n) == UNION {[1..k -> S] : k \in 0..n}

Init ==
  /\ \E count \in 0..Min(MaxFields, Len(declared)) :
       members = [k \in 1..count |-> string(declared[k])]
  /\ \E types \in SeqsUpTo(atypes_universe, MaxLen) :
       arguments = [i \in 1..Len(types) |-> [pos |-> i - 1, type |-> types[i]]]
  /\ pc = "start"
  /\ calls = <<>>
  /\ step = idle
  /\ constructed = <<>>

\* ----------------------------------------------------------------- actions
ngc_initialize ==
  /\ pc = "start"
  /\ LET sel == ngc_initialize_select(Len(members))
     IN IF sel = "member_iterator"
        THEN /\ pc' = "run"
             /\ calls' = <<[op |-> "member_iterator", index |-> (Len(members) - 1) % SizeMod]>>
        ELSE /\ pc' = "null_iterator"
             /\ calls' = <<>>
  /\ UNCHANGED <<members, arguments, step, constructed>>

null_iterator_execute ==
  /\ pc = "null_iterator"
  /\ pc' = "done"
  /\ UNCHANGED <<members, arguments, calls, step, constructed>>

\* member_iterator <index> :: execute.  __ngc_member__ <index> exists only
\* for index < member count; any other instantiation does not compile.
member_iterator_execute ==
  /\ pc = "run"
  /\ step = idle
  /\ calls # <<>>
  /\ Head(calls).op = "member_iterator"
  /\ IF Head(calls).index < Len(members)
     THEN /\ calls' = member_iterator_body(Head(calls).index) \o Tail(calls)
          /\ pc' = pc
     ELSE /\ calls' = calls
          /\ pc' = "ill_formed"
  /\ UNCHANGED <<members, arguments, step, constructed>>

member_initializer_execute ==
  /\ pc = "run"
  /\ step = idle
  /\ calls # <<>>
  /\ Head(calls).op = "member_initializer"
  /\ LET index == Head(calls).index
         name == members[index + 1]
         range == arguments_range(name, atypes(arguments))
     IN step' = [fn |-> member_initializer_select(range), member |-> index,
                 range |-> range, arguments |-> arguments]
  /\ UNCHANGED <<members, arguments, pc, calls, constructed>>

parametric_initializer_execute ==
  /\ pc = "run"
  /\ step.fn = "parametric_initializer"
  /\ LET n == parametric_counts(step.range, Len(step.arguments))
     IN step' = [fn |-> "front_step", member |-> step.member, range |-> step.range,
                 front |-> n.front, rotate |-> n.rotate, back |-> n.back,
                 arguments |-> step.arguments]
  /\ UNCHANGED <<members, arguments, pc, calls, constructed>>

\* Return from the call of __ngc_construct__ up to member_iterator.
construct(member, via, args) ==
  /\ constructed' = Append(constructed, [member |-> member, via |-> via, arguments |-> args])
  /\ step' = idle
  /\ calls' = Tail(calls)
  /\ pc' = IF Len(calls) = 1 THEN "done" ELSE pc

default_initializer_execute ==
  /\ pc = "run"
  /\ step.fn = "default_initializer"
  /\ construct(step.member, "default_initializer", default_initializer_forward(step.arguments))
  /\ UNCHANGED <<members, arguments>>

\* A step with a positive count takes a first argument apart from the pack:
\* with no argument left no overload of execute matches.
front_step_execute ==
  /\ pc = "run"
  /\ step.fn = "front_step"
  /\ IF step.front = 0
     THEN /\ step' = [step EXCEPT !.fn = "rotate_step"]
          /\ pc' = pc
     ELSE IF step.arguments = <<>>
     THEN /\ step' = step
          /\ pc' = "ill_formed"
     ELSE /\ step' = [step EXCEPT !.front = step.front - 1,
                                  !.arguments = front_step_forward(step.arguments)]
          /\ pc' = pc
  /\ UNCHANGED <<members, arguments, calls, constructed>>

rotate_step_execute ==
  /\ pc = "run"
  /\ step.fn = "rotate_step"
  /\ IF step.rotate = 0
     THEN /\ step' = [step EXCEPT !.fn = "back_step"]
          /\ pc' = pc
     ELSE IF step.arguments = <<>>
     THEN /\ step' = step
          /\ pc' = "ill_formed"
     ELSE /\ step' = [step EXCEPT !.rotate = step.rotate - 1,
                                  !.arguments = rotate_step_forward(step.arguments)]
          /\ pc' = pc
  /\ UNCHANGED <<members, arguments, calls, constructed>>

back_step_execute ==
  /\ pc = "run"
  /\ step.fn = "back_step"
  /\ IF step.back = 0
     THEN /\ construct(step.member, "parametric_initializer", step.arguments)
     ELSE IF step.arguments = <<>>
     THEN /\ step' = step
          /\ pc' = "ill_formed"
          /\ UNCHANGED <<calls, constructed>>
     ELSE /\ step' = [step EXCEPT !.back = step.back - 1,
                                  !.arguments = back_step_forward(step.arguments)]
          /\ pc' = pc
          /\ UNCHANGED <<calls, constructed>>
  /\ UNCHANGED <<members, arguments>>

Next ==
  \/ ngc_initialize
  \/ null_iterator_execute
  \/ member_iterator_execute
  \/ member_initializer_execute
  \/ parametric_initializer_execute
  \/ default_initializer_execute
  \/ front_step_execute
  \/ rotate_step_execute
  \/ back_step_execute

Spec == Init /\ [][Next]_vars

\* ------------------------------------------- left-to-right reference scan
\* Positions are 0-based, as in the source; slot p is arguments[p + 1].
Size == Len(arguments)

IsMarker(p) == arguments[p + 1].type.str

IsTarget(name, p) == IsMarker(p) /\ arguments[p + 1].type.id = name.id

Occurs(name) == \E p \in 0..(Size - 1) : IsTarget(name, p)

Least(S, default) == IF S = {} THEN default ELSE CHOOSE x \in S : \A y \in S : x <= y

FirstOccurrence(name) == Least({p \in 0..(Size - 1) : IsTarget(name, p)}, Size)

NextMarker(p) == Least({q \in 0..(Size - 1) : q > p /\ IsMarker(q)}, Size)

DirectScan(name) ==
  [found |-> Occurs(name),
   beg |-> FirstOccurrence(name),
   end |-> NextMarker(FirstOccurrence(name))]

\* The slots at positions beg+1 .. end-1 of the original sequence, in order.
Between(beg, end) == [k \in 1..(end - beg - 1) |-> arguments[beg + 1 + k]]

NameOf(call) == members[call.member + 1]

Calls == 1..Len(constructed)

Positions(call) == {call.arguments[k].pos : k \in 1..Len(call.arguments)}

CallsOf(index) == {i \in Calls : constructed[i].member = index}

\* ------------------------------------------------------------------ claims

\* C1: the members are constructed in strictly ascending declaration order,
\* member 0 first: the i-th call to __ngc_construct__ is on member i-1,
\* whatever the positions of the markers in the argument sequence.
C1_DeclarationOrder == \A i \in Calls : constructed[i].member = i - 1

\* Both members found, the marker of member 1 before the marker of member 0.
C1_Witness ==
  /\ pc = "done"
  /\ Len(members) >= 2
  /\ Occurs(members[1]) /\ Occurs(members[2])
  /\ FirstOccurrence(members[2]) < FirstOccurrence(members[1])
  /\ Len(constructed) = Len(members)

\* C2: the arguments of a parametric construction are exactly the slots at
\* positions i+1 .. j-1 of the original sequence, in their original order,
\* i the position of the member's marker and j the position of the next
\* marker (or the length); no marker slot is among them.
C2_BundleExact ==
  \A c \in Calls :
    constructed[c].via = "parametric_initializer" =>
      LET i == FirstOccurrence(NameOf(constructed[c]))
          j == NextMarker(i)
          bundle == constructed[c].arguments
      IN /\ bundle = Between(i, j)
         /\ \A k \in 1..Len(bundle) : bundle[k].pos = i + k /\ ~bundle[k].type.str

\* A bundle of two values, rotated past a marker that is then discarded.
C2_Witness ==
  \E c \in Calls :
    /\ constructed[c].via = "parametric_initializer"
    /\ Len(constructed[c].arguments) = 2
    /\ NextMarker(FirstOccurrence(NameOf(constructed[c]))) < Size

\* C3: arguments_range, computed by recursion over the reversed pack, is the
\* left-to-right scan: found iff the needle occurs, beg the first position
\* of the needle or the length, end the first marker after beg or the length.
C3_ScanIsDirect ==
  step # idle => step.range = DirectScan(members[step.member + 1])

\* The needle is neither first nor last, and a marker follows it.
C3_Witness ==
  /\ step # idle
  /\ step.range.found
  /\ step.range.beg > 0
  /\ step.range.end < Size
  /\ step.range.end > step.range.beg + 1

\* C4: a member whose marker does not occur is constructed by the default
\* construction, which receives none of the slots of the sequence.
C4_DefaultFallback ==
  \A c \in Calls :
    ~Occurs(NameOf(constructed[c])) =>
      /\ constructed[c].via = "default_initializer"
      /\ constructed[c].arguments = <<>>

\* A default construction while the sequence holds another member's marker
\* and value.
C4_Witness ==
  \E c \in Calls :
    /\ ~Occurs(NameOf(constructed[c]))
    /\ constructed[c].via = "default_initializer"
    /\ \E p \in 0..(Size - 2) : IsMarker(p) /\ ~IsMarker(p + 1)

\* C5: on a type without members no construction call is made and the call
\* is well formed, whatever the argument sequence.
C5_EmptyObjectNoOp ==
  members = <<>> => constructed = <<>> /\ calls = <<>> /\ step = idle /\ pc # "ill_formed"

\* The call has returned, with markers and values among the arguments.
C5_Witness ==
  /\ members = <<>>
  /\ pc = "done"
  /\ \E p \in 0..(Size - 2) : IsMarker(p) /\ ~IsMarker(p + 1)

\* C6: every member is constructed at most once while the call runs and
\* exactly once when it has returned, through the parametric construction
\* iff its marker occurs and through the default construction otherwise.
C6_ExactlyOnce ==
  /\ \A index \in 0..(Len(members) - 1) :
       /\ Cardinality(CallsOf(index)) <= 1
       /\ (pc = "done" => Cardinality(CallsOf(index)) = 1)
  /\ \A c \in Calls :
       /\ constructed[c].member \in 0..(Len(members) - 1)
       /\ constructed[c].via \in {"parametric_initializer", "default_initializer"}
       /\ (constructed[c].via = "parametric_initializer") <=> Occurs(NameOf(constructed[c]))

\* The call has returned with one member on each of the two paths.
C6_Witness ==
  /\ pc = "done"
  /\ Len(members) >= 2
  /\ \E c, d \in Calls :
       /\ constructed[c].via = "parametric_initializer"
       /\ constructed[d].via = "default_initializer"

\* C7: no slot is passed to a construction more than once: a bundle holds a
\* position once, and the bundles of two members share no position.
C7_Disjoint ==
  /\ \A c \in Calls : Cardinality(Positions(constructed[c])) = Len(constructed[c].arguments)
  /\ \A c, d \in Calls : c # d => Positions(constructed[c]) \cap Positions(constructed[d]) = {}

\* Two members have each consumed a value of the same sequence.
C7_Witness ==
  /\ pc = "done"
  /\ \E c, d \in Calls :
       /\ c # d
       /\ constructed[c].arguments # <<>>
       /\ constructed[d].arguments # <<>>

\* C8: a member whose marker is directly followed by a marker, or is the
\* last slot, is constructed through the parametric path with no argument.
C8_EmptyBundleIsParametric ==
  \A c \in Calls :
    LET i == FirstOccurrence(NameOf(constructed[c]))
    IN (Occurs(NameOf(constructed[c])) /\ (i = Size - 1 \/ IsMarker(i + 1))) =>
         /\ constructed[c].via = "parametric_initializer"
         /\ constructed[c].arguments = <<>>

\* One member's marker is directly followed by a marker, another's is last.
C8_Witness ==
  \E c, d \in Calls :
    /\ Occurs(NameOf(constructed[c])) /\ Occurs(NameOf(constructed[d]))
    /\ FirstOccurrence(NameOf(constructed[c])) < Size - 1
    /\ IsMarker(FirstOccurrence(NameOf(constructed[c])) + 1)
    /\ FirstOccurrence(NameOf(constructed[d])) = Size - 1
    /\ constructed[c].via = "parametric_initializer"
    /\ constructed[d].via = "parametric_initializer"

\* C9: for a needle that is found, beg < end <= n; the three counts of the
\* slicer are beg+1, end-beg-1 and n-end without wrapping and sum to n; no
\* instantiation is ill formed and a step with a positive count has an
\* argument to act on.
C9_SlicerArithmetic ==
  /\ pc # "ill_formed"
  /\ step.fn = "parametric_initializer" =>
       LET n == Len(step.arguments)
           count == parametric_counts(step.range, n)
       IN /\ step.range.beg < step.range.end
          /\ step.range.end <= n
          /\ count.front = step.range.beg + 1
          /\ count.rotate = step.range.end - step.range.beg - 1
          /\ count.back = n - step.range.end
          /\ count.front + count.rotate + count.back = n
  /\ step.fn = "front_step" /\ step.front > 0 => step.arguments # <<>>
  /\ step.fn = "rotate_step" /\ step.rotate > 0 => step.arguments # <<>>
  /\ step.fn = "back_step" /\ step.back > 0 => step.arguments # <<>>
  /\ step.fn = "front_step" => step.front + step.rotate + step.back = Len(step.arguments)

\* The back discard has started after a front discard and a rotation.
C9_Witness ==
  /\ step.fn = "back_step"
  /\ step.back > 0
  /\ step.range.beg > 0
  /\ step.range.end > step.range.beg + 1

\* C10: when the marker of a member occurs more than once the first
\* occurrence wins: the member is constructed through the parametric path
\* with the slots strictly between the first occurrence and the next marker
\* of any name, and with no slot after a later occurrence.
C10_FirstOccurrenceWins ==
  \A c \in Calls :
    LET name == NameOf(constructed[c])
        occurrences == {p \in 0..(Size - 1) : IsTarget(name, p)}
        first == FirstOccurrence(name)
    IN Cardinality(occurrences) > 1 =>
         /\ constructed[c].via = "parametric_initializer"
         /\ constructed[c].arguments = Between(first, NextMarker(first))
         /\ \A q \in Positions(constructed[c]), p \in occurrences \ {first} : first < q /\ q < p
         /\ Cardinality(CallsOf(constructed[c].member)) = 1

\* A value follows each of two occurrences of the marker of one member.
C10_Witness ==
  \E c \in Calls :
    LET name == NameOf(constructed[c])
        occurrences == {p \in 0..(Size - 1) : IsTarget(name, p)}
    IN /\ Cardinality(occurrences) > 1
       /\ constructed[c].arguments # <<>>
       /\ \E p \in occurrences : p > FirstOccurrence(name) /\ p + 1 < Size /\ ~IsMarker(p + 1)

====
